---- MODULE Spec2Model ----
(***************************************************************************)
(* The ISS APRS tracking bot: the scraper of the "last heard" page, the    *)
(* elapsed-time formatter, the per-user CSV store, the activity evaluator, *)
(* the tracking and watching ticks (issaprs.py) and the Telegram command   *)
(* and job handlers that drive them (bot.py).                              *)
(*                                                                         *)
(* Representation.                                                         *)
(*  - A station record is the Python list [callsign, timestamp, link],     *)
(*    here the tuple <<callsign, timestamp, link>> (so previous[1] of the  *)
(*    code is previous[2] here).  The link is the text of the href of the  *)
(*    callsign cell, "" for a cell without an anchor and None for an       *)
(*    anchor without href; no href of the model is the text "None", by     *)
(*    which None is told from a text.                                      *)
(*  - A timestamp is the page's text "YYYYMMDDHHMMSS", a string.           *)
(*  - A call that can raise returns Ok(value) or Raise(exception).         *)
(*  - The wall clock `now` counts whole seconds since                      *)
(*    2024-01-01T00:00:00Z.                                                *)
(*  - A duration handed to the formatter is a rational number of seconds   *)
(*    n / Den, given by its numerator n.                                   *)
(*  - The file system below DB_DIR is the function `db` from the paths of  *)
(*    the files that exist to their rows, oldest first.                    *)
(*  - The job queue is the set `jobs` of scheduled jobs; where the cadence  *)
(*    of a job matters, `sched` holds the instant of its next run.         *)
(***************************************************************************)
EXTENDS Integers, Sequences, FiniteSets, TLC

VARIABLES now, page, db, jobs, pc, ret, call, seen, world, sched

vars == <<now, page, db, jobs, pc, ret, call, seen, world, sched>>

(***************************************************************************)
(* Program constants.                                                      *)
(***************************************************************************)
SECOND == 1

MINUTE == SECOND * 60

HOUR == MINUTE * 60

DAY == HOUR * 24

TRACK_INTERVAL == 60

WATCH_INTERVAL == 5

INACTIVE_TIME == 6 * HOUR

DB_DIR == "db/"

\* The texts of messages.py.  A character outside ASCII is written as Python
\* escapes it (backslash, U or u, and its code point in hexadecimal).
NEW_ACTIVITY == "\\U0001f6f0\\ufe0f New activity detected\\!\n\n"

SUCCESS_TRACK_MSG ==
    "\\U0001f389 Success\\! You are now tracking the APRS activity "
        \o "from the ISS\\. If new activity is detected after six hours of"
        \o " inactivity, you will be the first to know\\.\n\nYou can stop "
        \o "tracking by using /untrack\\.\n\n"

ALREADY_TRACK_MSG ==
    "\\U0001f914 You are already tracking APRS activity from the IS"
        \o "S. To stop tracking, please use /untrack."

UNSET_MSG ==
    "\\U0001f6d1 You are no longer tracking APRS activity from the "
        \o "ISS."

UNSET_ERROR_MSG ==
    "\\U0001f914 Sorry, but you are not currently tracking APRS act"
        \o "ivity from the ISS. To start, use /track."

SUCCESS_WATCH_MSG ==
    "\\U0001f389 Success\\! You are now watching for activity from "
        \o "the callsign "

STOP_WATCH_MSG == "\n\nTo stop watching, use /unwatch\\."

ALREADY_WATCH_MSG ==
    "\\U0001f914 You are already watching a callsign. To stop, plea"
        \o "se use /unwatch."

CALLSIGN_ERROR_MSG ==
    "Usage: /watch <callsign>\n\nDo not forget to include the SSID,"
        \o " e.g., /watch PU2URT-12."

CALLSIGN_ACTIVITY == " has just been digipeated by the ISS\\!"

UNSET_WATCH_MSG ==
    "\\U0001f6d1 You are no longer watching callsign activity from "
        \o "the ISS."

UNSET_WATCH_ERROR_MSG ==
    "\\U0001f914 Sorry, but you are not currently watching a callsi"
        \o "gn. To start, use: /watch <callsign>"

(***************************************************************************)
(* Bounds of the model.                                                    *)
(***************************************************************************)
\* Durations handed to the formatter are multiples of 1/Den second.
Den == 4

\* The formatter is tried on every duration within FmtSpread/Den seconds of
\* each of its boundaries.
FmtSpread == 4

\* The satellite relays at most MaxHeard packets after the one the page
\* starts with (where the core is followed on its own: packets with a
\* timestamp).
MaxHeard == 1

\* The clock is followed for MaxSeconds seconds from its start and for
\* MaxSeconds seconds from the end of a silence of INACTIVE_TIME seconds.
MaxSeconds == 1

\* On its cadence, a tracking job is followed for MaxRuns runs.
MaxRuns == 3

\* Between those runs the satellite relays at most MaxBurst packets after the
\* one the page starts with.
MaxBurst == 3

\* The core is followed on a key as long as the key's file holds at most
\* MaxRows rows.
MaxRows == 2

(***************************************************************************)
(* Values.                                                                 *)
(***************************************************************************)
\* Python's None.
None == "None"

\* What get_last_heard raises when the page cannot be fetched or has no
\* first data row with a timestamp cell (an exception of requests, an
\* IndexError of rows[1] or last_heard[4]).
FetchError == "FetchError"

\* What datetime.strptime and float raise on a text they cannot convert.
ValueError == "ValueError"

\* What previous[1] raises on an empty row.
IndexError == "IndexError"

\* The outcome of a call: the value it returned, or the exception it raised.
Ok(value) == [raised |-> None, value |-> value]

Raise(exception) == [raised |-> exception]

\* Telegram user ids and chat ids, and who writes in which chat: chat 10 is
\* the chat of user 1 with the bot, chat 20 a group with both users.
UserIds == {1, 2}

ChatIds == {10, 20}

Members == {<<10, 1>>, <<20, 1>>, <<20, 2>>}

\* The stations the satellite relays: callsign and the link of the callsign
\* cell ("" when the cell has no anchor).
Stations == {<<"A", "">>, <<"B-1", "l.b">>}

\* The station of the packet the page shows when the bot starts.
FirstStation == <<"A", "">>

\* A station whose link holds a carriage return: the scraper keeps the href
\* of the callsign cell as the page has it.
CarriageStation == <<"A", "l\rb">>

\* A station whose callsign cell has an anchor without href: get('href')
\* gives None.
NoHrefStation == <<"A", None>>

\* The stations the evaluator is tried on.
EvalStations == Stations \cup {<<"A", "la">>}

\* The worlds the bot is followed in: who writes in which chat, which kinds
\* of subscription they use, which stations the satellite relays, and
\* whether the page can show a packet whose timestamp cell is empty.
Worlds ==
    {[members |-> Members, kinds |-> {"track"}, stations |-> Stations,
      untimed |-> TRUE],
     [members |-> Members, kinds |-> {"watch"}, stations |-> Stations,
      untimed |-> TRUE],
     [members |-> {<<10, 1>>}, kinds |-> {"track", "watch"},
      stations |-> Stations, untimed |-> TRUE]}

\* The worlds the core is followed in: the subscribers and kinds of the
\* bot's with every timestamp cell filled; two subscribers using both kinds
\* while the page keeps the packet it shows at the start; and one subscriber
\* using both kinds while the page shows a packet with an empty timestamp
\* cell or the satellite relays a station whose record the file does not
\* give back as it was fetched.
CoreWorlds ==
    {[w EXCEPT !.untimed = FALSE] : w \in Worlds}
        \cup {[members |-> Members, kinds |-> {"track", "watch"},
               stations |-> {}, untimed |-> FALSE]}
        \cup {[members |-> {<<10, 1>>}, kinds |-> {"track", "watch"},
               stations |-> {FirstStation}, untimed |-> TRUE]}
        \cup {[members |-> {<<10, 1>>}, kinds |-> {"track", "watch"},
               stations |-> {s}, untimed |-> FALSE] :
                 s \in {CarriageStation, NoHrefStation}}

(***************************************************************************)
(* Text.                                                                   *)
(***************************************************************************)
\* The text from its k-th character on, with new in place of the characters
\* at the positions `at`, of which i is the first.
RECURSIVE replace_at(_, _, _, _)
splice(text, k, i, at, new) ==
    SubSeq(text, k, i - 1) \o new \o replace_at(text, i + 1, at \ {i}, new)

replace_at(text, k, at, new) ==
    IF at = {} THEN SubSeq(text, k, Len(text))
    ELSE splice(text, k, CHOOSE i \in at : \A j \in at : i <= j, at, new)

\* str.replace(old, new) for a single character old: every character that
\* is old becomes new.
replace(text, old, new) ==
    replace_at(text, 1, {i \in 1 .. Len(text) : SubSeq(text, i, i) = old}, new)

\* str.upper() of one ASCII character.
upper_char(c) ==
    CASE c = "a" -> "A" [] c = "b" -> "B" [] c = "c" -> "C" [] c = "d" -> "D"
      [] c = "e" -> "E" [] c = "f" -> "F" [] c = "g" -> "G" [] c = "h" -> "H"
      [] c = "i" -> "I" [] c = "j" -> "J" [] c = "k" -> "K" [] c = "l" -> "L"
      [] c = "m" -> "M" [] c = "n" -> "N" [] c = "o" -> "O" [] c = "p" -> "P"
      [] c = "q" -> "Q" [] c = "r" -> "R" [] c = "s" -> "S" [] c = "t" -> "T"
      [] c = "u" -> "U" [] c = "v" -> "V" [] c = "w" -> "W" [] c = "x" -> "X"
      [] c = "y" -> "Y" [] c = "z" -> "Z" [] OTHER -> c

\* str.upper() of an ASCII text (the text is taken by halves).
RECURSIVE upper(_)
upper(text) ==
    IF Len(text) = 0 THEN ""
    ELSE IF Len(text) = 1 THEN upper_char(text)
    ELSE LET half == Len(text) \div 2
         IN  upper(SubSeq(text, 1, half))
                 \o upper(SubSeq(text, half + 1, Len(text)))

isdigit(c) == c \in {"0", "1", "2", "3", "4", "5", "6", "7", "8", "9"}

digit(c) ==
    CASE c = "0" -> 0 [] c = "1" -> 1 [] c = "2" -> 2 [] c = "3" -> 3
      [] c = "4" -> 4 [] c = "5" -> 5 [] c = "6" -> 6 [] c = "7" -> 7
      [] c = "8" -> 8 [] c = "9" -> 9

\* int() of a text of decimal digits; 0 for the empty text.
RECURSIVE int(_)
int(text) ==
    IF text = "" THEN 0
    ELSE int(SubSeq(text, 1, Len(text) - 1)) * 10
            + digit(SubSeq(text, Len(text), Len(text)))

all_digits(text) == \A i \in 1 .. Len(text) : isdigit(SubSeq(text, i, i))

RECURSIVE pow10(_)
pow10(k) == IF k = 0 THEN 1 ELSE 10 * pow10(k - 1)

\* The text without its trailing zeros.
rstrip0(text) ==
    LET kept == {i \in 1 .. Len(text) : SubSeq(text, i, i) # "0"}
    IN  IF kept = {} THEN ""
        ELSE SubSeq(text, 1, CHOOSE i \in kept : \A j \in kept : j <= i)

\* The position of the first character of text that is in chars; 0 when
\* there is none.
find(text, chars) ==
    LET found == {i \in 1 .. Len(text) : SubSeq(text, i, i) \in chars}
    IN  IF found = {} THEN 0 ELSE CHOOSE i \in found : \A j \in found : i <= j

\* Digits, with single underscores between them only.
grouped(text) ==
    /\ \A i \in 1 .. Len(text) :
          \/ isdigit(SubSeq(text, i, i))
          \/ /\ SubSeq(text, i, i) = "_"
             /\ 1 < i /\ i < Len(text)
             /\ isdigit(SubSeq(text, i - 1, i - 1))
             /\ isdigit(SubSeq(text, i + 1, i + 1))

\* A float is the rational num / den: den is a power of ten for a finite
\* number, and 0 for inf (num 1), -inf (num -1) and nan (num 0).
number(n) == [num |-> n, den |-> 1]

\* x > f for an integer x and a float f.
exceeds(x, f) == x * f.den > f.num

\* The code points of the digits zero outside ASCII (Unicode 14, the
\* characters whose decimal value is 0); the digits one to nine of a script
\* follow its zero.
DecimalZeros ==
    {1632, 1776, 1984, 2406, 2534, 2662, 2790, 2918, 3046, 3174, 3302,
     3430, 3558, 3664, 3792, 3872, 4160, 4240, 6112, 6160, 6470, 6608,
     6784, 6800, 6992, 7088, 7232, 7248, 42528, 43216, 43264, 43472, 43504,
     43600, 44016, 65296, 66720, 68912, 69734, 69872, 69942, 70096, 70384,
     70736, 70864, 71248, 71360, 71472, 71904, 72016, 72784, 73040, 73120,
     92768, 92864, 93008, 120782, 120792, 120802, 120812, 120822, 123200,
     123632, 125264, 130032}

\* The ASCII digit of a code point that is a decimal digit of some script;
\* "" for any other code point.
decimal(code_point) ==
    IF \E zero \in DecimalZeros : code_point - zero \in 0 .. 9
    THEN ToString(code_point
                      - (CHOOSE zero \in DecimalZeros :
                            code_point - zero \in 0 .. 9))
    ELSE ""

\* The characters of ASCII from "!" (code point 33) to "_" (95), and from
\* "a" (97) to "~" (126), in order.
UpToUnderscore ==
    "!\"#$%&'()*+,-./0123456789:;<=>?@ABCDEFGHIJKLMNOPQRSTUVWXYZ[\\]^_"

FromSmallA == "abcdefghijklmnopqrstuvwxyz{|}~"

\* The character float() reads for a code point: the character itself in
\* ASCII, and the ASCII digit for a decimal digit of another script.  Any
\* other character outside ASCII is read as "?", which no number holds; so
\* are here the grave accent (96) and the control characters, which no
\* number holds either.
ascii_of(code_point) ==
    IF code_point \in 33 .. 95
    THEN SubSeq(UpToUnderscore, code_point - 32, code_point - 32)
    ELSE IF code_point \in 97 .. 126
    THEN SubSeq(FromSmallA, code_point - 96, code_point - 96)
    ELSE IF decimal(code_point) # "" THEN decimal(code_point)
    ELSE "?"

\* A text, given by its code points, as float() reads it.
RECURSIVE decimal_to_ascii(_)
decimal_to_ascii(text) ==
    IF text = <<>> THEN ""
    ELSE ascii_of(Head(text)) \o decimal_to_ascii(Tail(text))

\* float(text) of an ASCII text without white space: a sign, then inf,
\* infinity or nan in any case, or digits with a full stop and an exponent.
float_ascii(text) ==
    LET signed == text # "" /\ Head(text) \in {"+", "-"}
        sign == IF signed /\ Head(text) = "-" THEN 0 - 1 ELSE 1
        unsigned == IF signed THEN Tail(text) ELSE text
        e == find(unsigned, {"e", "E"})
        mantissa == IF e = 0 THEN unsigned ELSE SubSeq(unsigned, 1, e - 1)
        exponent == IF e = 0 THEN "" ELSE SubSeq(unsigned, e + 1, Len(unsigned))
        exp_signed == exponent # "" /\ Head(exponent) \in {"+", "-"}
        exp_digits == IF exp_signed THEN Tail(exponent) ELSE exponent
        dot == find(mantissa, {"."})
        whole == IF dot = 0 THEN mantissa ELSE SubSeq(mantissa, 1, dot - 1)
        fraction == IF dot = 0 THEN ""
                    ELSE SubSeq(mantissa, dot + 1, Len(mantissa))
        kept == rstrip0(replace(fraction, "_", ""))
        shift == int(replace(exp_digits, "_", ""))
        num == sign * int(replace(whole, "_", "") \o kept)
        den == pow10(Len(kept))
    IN  IF upper(unsigned) \in {"INF", "INFINITY"}
        THEN Ok([num |-> sign, den |-> 0])
        ELSE IF upper(unsigned) = "NAN" THEN Ok([num |-> 0, den |-> 0])
        ELSE IF \/ ~grouped(whole) \/ ~grouped(fraction)
                \/ (whole = "" /\ fraction = "")
                \/ (e # 0 /\ (exp_digits = "" \/ ~grouped(exp_digits)))
        THEN Raise(ValueError)
        ELSE IF exp_signed /\ Head(exponent) = "-"
        THEN Ok([num |-> num, den |-> den * pow10(shift)])
        ELSE Ok([num |-> num * pow10(shift), den |-> den])

\* float(text) for a text without white space, as the argument of a command
\* is, given by the code points of its characters: <<49>> is "1", <<1633>>
\* the digit one of the Arabic-Indic script, and <<92, 117, 48, 54, 54, 49>>
\* the six characters a user types for the escape of that digit.
float(text) == float_ascii(decimal_to_ascii(text))

\* A number in two digits.
pad2(n) == IF n < 10 THEN "0" \o ToString(n) ELSE ToString(n)

(***************************************************************************)
(* Timestamps: the upstream prints them, calculate_elapsed_time parses     *)
(* them.                                                                   *)
(***************************************************************************)
\* The instants the clock can show, in seconds from 2024-01-01T00:00:00Z.
Times == {l * INACTIVE_TIME + s : l \in {0, 1}, s \in 0 .. MaxSeconds}

\* The page's timestamp text for the instant t, in January 2024.
strftime_january(t) ==
    "202401" \o pad2((t \div DAY) + 1) \o pad2((t \div HOUR) % 24)
        \o pad2((t \div MINUTE) % 60) \o pad2(t % 60)

\* The timestamp texts of the instants the clock can show, computed once.
printed_times == [t \in Times |-> strftime_january(t)]

strftime(t) == IF t \in Times THEN printed_times[t] ELSE strftime_january(t)

\* The directives %m %d %H %M %S of the format: each matches two digits in
\* its range or else one digit (%m and %d: not 0), in that order of
\* preference; %d has a last alternative, a space and a digit that is not 0.
Directives == <<"m", "d", "H", "M", "S">>

\* Whether a directive matches len digits that read n.
in_range(directive, len, n) ==
    CASE directive = "m" -> IF len = 2 THEN n \in 1 .. 12 ELSE n # 0
      [] directive = "d" -> IF len = 2 THEN n \in 1 .. 31 ELSE n # 0
      [] directive = "H" -> IF len = 2 THEN n \in 0 .. 23 ELSE TRUE
      [] directive = "M" -> IF len = 2 THEN n \in 0 .. 59 ELSE TRUE
      [] directive = "S" -> IF len = 2 THEN n \in 0 .. 61 ELSE TRUE

\* Whether a directive matches a text of one or two characters.
matches(directive, text) ==
    IF all_digits(text) THEN in_range(directive, Len(text), int(text))
    ELSE /\ directive = "d"
         /\ Len(text) = 2
         /\ SubSeq(text, 1, 1) = " "
         /\ isdigit(SubSeq(text, 2, 2))
         /\ SubSeq(text, 2, 2) # "0"

\* int() of the text a directive matched: the space before a digit is
\* white space to int().
matched_int(text) ==
    IF SubSeq(text, 1, 1) = " " THEN int(SubSeq(text, 2, Len(text)))
    ELSE int(text)

\* A match of the directives: the fields' values and what is left of the
\* text; <<>> is no match.
prepend(field, rest) ==
    IF rest = <<>> THEN <<>> ELSE <<<<field>> \o rest[1], rest[2]>>

\* The alternative the regular expression takes: the first that matches.
first_match(preferred, other) ==
    IF preferred # <<>> THEN preferred ELSE other

\* The match of the directives from the k-th on at the start of text, as the
\* regular expression of strptime finds it: of a directive's alternatives,
\* those of two characters (two digits, or the space and digit of %d, which
\* no alternative of one digit matches) and then the one of one digit.
RECURSIVE match_from(_, _)
match_from(k, text) ==
    IF k > Len(Directives) THEN <<<<>>, text>>
    ELSE first_match(
             IF Len(text) >= 2 /\ matches(Directives[k], SubSeq(text, 1, 2))
             THEN prepend(matched_int(SubSeq(text, 1, 2)),
                          match_from(k + 1, SubSeq(text, 3, Len(text))))
             ELSE <<>>,
             IF Len(text) >= 1 /\ matches(Directives[k], SubSeq(text, 1, 1))
             THEN prepend(matched_int(SubSeq(text, 1, 1)),
                          match_from(k + 1, SubSeq(text, 2, Len(text))))
             ELSE <<>>)

is_leap(year) == year % 4 = 0 /\ (year % 100 # 0 \/ year % 400 = 0)

days_in_month(year, month) ==
    IF month = 2 THEN (IF is_leap(year) THEN 29 ELSE 28)
    ELSE IF month \in {4, 6, 9, 11} THEN 30 ELSE 31

\* The days from 1970-01-01 to a date of the proleptic Gregorian calendar.
days_from_civil(year, month, day) ==
    LET y == IF month <= 2 THEN year - 1 ELSE year
        era == y \div 400
        yoe == y - era * 400
        doy == (153 * ((month + 9) % 12) + 2) \div 5 + day - 1
        doe == yoe * 365 + yoe \div 4 - yoe \div 100 + doy
    IN  era * 146097 + doe - 719468

\* The datetime of a year and a match of the other directives, as the
\* seconds from 2024-01-01T00:00:00Z to it: there is none without a match,
\* with text left over, in the year 0, on a day the month does not have or
\* in a second after 59.
datetime(year, found) ==
    IF found = <<>> THEN Raise(ValueError)
    ELSE IF found[2] # "" THEN Raise(ValueError)
    ELSE IF \/ year < 1
            \/ found[1][2] > days_in_month(year, found[1][1])
            \/ found[1][5] > 59
    THEN Raise(ValueError)
    ELSE Ok((days_from_civil(year, found[1][1], found[1][2])
                - days_from_civil(2024, 1, 1)) * DAY
            + found[1][3] * HOUR + found[1][4] * MINUTE + found[1][5])

\* The parse of a timestamp by the format "%Y%m%d%H%M%S": %Y matches four
\* digits.  The texts are ASCII, and the instants within 68 years of 2024,
\* which the integers of the model checker can count in seconds.
strptime_datetime(timestamp) ==
    IF Len(timestamp) < 4 \/ ~all_digits(SubSeq(timestamp, 1, 4))
    THEN Raise(ValueError)
    ELSE datetime(int(SubSeq(timestamp, 1, 4)),
                  match_from(1, SubSeq(timestamp, 5, Len(timestamp))))

\* The parses of the timestamps the clock prints, computed once.
parsed_times ==
    [timestamp \in {strftime(t) : t \in Times} |-> strptime_datetime(timestamp)]

\* datetime.strptime(timestamp, "%Y%m%d%H%M%S")
strptime(timestamp) ==
    IF timestamp \in DOMAIN parsed_times THEN parsed_times[timestamp]
    ELSE strptime_datetime(timestamp)

\* The seconds from a parsed time to the wall clock's present: the
\* subtraction of calculate_elapsed_time, which a parse that raised does not
\* reach.
seconds_since(parsed_time) ==
    IF parsed_time.raised # None THEN parsed_time
    ELSE Ok(now - parsed_time.value)

\* Seconds elapsed since the timestamp, against the wall clock.
calculate_elapsed_time(timestamp) == seconds_since(strptime(timestamp))

(***************************************************************************)
(* The elapsed-time formatter.                                             *)
(***************************************************************************)
\* A rounding that drops the fraction.
round_down(a, b) == a \div b

\* Python's round(a / b) for b > 0: to the nearest integer, ties to even.
round(a, b) ==
    LET q == a \div b
        r == a - q * b
    IN  IF 2 * r < b THEN q
        ELSE IF 2 * r > b THEN q + 1
        ELSE IF q % 2 = 0 THEN q ELSE q + 1

\* print_elapsed_time(n / Den).
print_elapsed_time(n) ==
    IF n = SECOND * Den THEN "1 second"
    ELSE IF n < MINUTE * Den THEN ToString(round(n, Den)) \o " seconds"
    ELSE
      LET delta_in_min == round(n, MINUTE * Den)
          delta_in_hour == round(n, HOUR * Den)
          delta_in_day == round(n, DAY * Den)
          days == IF n > DAY * Den
                  THEN IF delta_in_day = 1 THEN "1 day"
                       ELSE IF delta_in_day > 1
                            THEN ToString(delta_in_day) \o " days"
                            ELSE None
                  ELSE None
          hours == IF n < DAY * Den
                   THEN IF delta_in_hour = 1 THEN "1 hour"
                        ELSE IF delta_in_hour > 1
                             THEN ToString(delta_in_hour) \o " hours"
                             ELSE days
                   ELSE days
      IN  IF n < HOUR * Den
          THEN IF delta_in_min = 1 THEN "1 minute"
               ELSE IF delta_in_min > 1
                    THEN ToString(delta_in_min) \o " minutes"
                    ELSE hours
          ELSE hours

(***************************************************************************)
(* Scraping.                                                               *)
(***************************************************************************)
\* The station records the evaluator is tried on.
Records == {<<s[1], strftime(t), s[2]>> : s \in EvalStations, t \in Times}

\* get_last_heard() when the page shows rows: the first data row, newest
\* first.
get_last_heard(rows) == rows[1]

\* What inform_last_heard() raises when the fetch returned last_heard, None
\* when it returns: its calculate_elapsed_time can raise, the rest of it
\* cannot.
inform_last_heard_raised(last_heard) ==
    calculate_elapsed_time(last_heard[2]).raised

\* inform_last_heard() when the fetch returned last_heard.
inform_last_heard(last_heard) ==
    LET callsign == last_heard[1]
        timestamp == last_heard[2]
        elapsed_time == calculate_elapsed_time(timestamp)
        link == last_heard[3]
        output == "The last station heard was *" \o callsign \o ", "
                      \o print_elapsed_time(elapsed_time.value * Den) \o " ago*. "
                      \o (IF link # "" /\ link # None
                          THEN "See details at [findu.com](" \o link \o ")."
                          ELSE "")
    IN  IF elapsed_time.raised # None THEN elapsed_time
        ELSE Ok(replace(replace(output, "-", "\\-"), ".", "\\."))

(***************************************************************************)
(* The store: one CSV file per user and kind.  The operators take the file *)
(* system fs and, when they write, return the file system they leave.      *)
(***************************************************************************)
\* os.path.isfile
isfile(fs, path) == path \in DOMAIN fs

\* What a file the code opens to read (without newline='') gives of a text
\* written to it as it is (with newline=''): universal newlines turn each
\* "\r\n" and each other "\r" into "\n".  cr is the position of the first
\* "\r" of the text, 0 when it has none.
RECURSIVE translate_newlines(_)
translated(text, cr) ==
    IF cr = 0 THEN text
    ELSE SubSeq(text, 1, cr - 1) \o "\n"
             \o translate_newlines(
                    SubSeq(text,
                           IF /\ cr < Len(text)
                              /\ SubSeq(text, cr + 1, cr + 1) = "\n"
                           THEN cr + 2 ELSE cr + 1,
                           Len(text)))

translate_newlines(text) == translated(text, find(text, {"\r"}))

\* The texts the packets of the satellite are made of.
PacketTexts ==
    {s[1] : s \in Stations \cup {CarriageStation}}
        \cup {s[2] : s \in Stations \cup {CarriageStation}}
        \cup {strftime(t) : t \in Times} \cup {""}

\* What the file gives of the packets' texts, computed once.
translated_texts == [text \in PacketTexts |-> translate_newlines(text)]

\* A text read from a file it was written to.
universal_newlines(text) ==
    IF text \in DOMAIN translated_texts THEN translated_texts[text]
    ELSE translate_newlines(text)

\* The row csv.reader yields of a row csv.writer wrote: the fields come back
\* as the file gives them.
read_row(row) == [i \in DOMAIN row |-> universal_newlines(row[i])]

\* The last row csv.reader yields, `none` for a file without rows.
last_row(rows, none) ==
    IF Len(rows) = 0 THEN none ELSE read_row(rows[Len(rows)])

is_entry_in_db(fs, db_path, entry) ==
    IF ~isfile(fs, db_path) THEN FALSE
    ELSE IF Len(fs[db_path]) = 0 THEN FALSE
    ELSE last_row(fs[db_path], None) = entry

\* The row csv.writer writes of a record: a field that is None is written
\* as the empty field, a text as it is.
written_row(record) ==
    [i \in DOMAIN record |-> IF record[i] = None THEN "" ELSE record[i]]

\* open(db_path, 'a') and writer.writerow(current)
append_row(fs, db_path, current) ==
    IF isfile(fs, db_path)
    THEN [fs EXCEPT ![db_path] = Append(@, written_row(current))]
    ELSE (db_path :> <<written_row(current)>>) @@ fs

save_last_heard(fs, db_path, current) ==
    IF ~is_entry_in_db(fs, db_path, current)
    THEN append_row(fs, db_path, current)
    ELSE fs

read_previously_heard(fs, db_path) == last_row(fs[db_path], <<>>)

\* The paths of the files of the users of the model, computed once.
db_paths ==
    [key \in {ToString(id) : id \in UserIds} \X {"track", "watch"} |->
        DB_DIR \o key[1] \o "-" \o key[2] \o ".csv"]

\* A path that leaves out the kind of subscription.
user_db_path_no_type(user, db_type) == DB_DIR \o user \o ".csv"

user_db_path(user, db_type) ==
    IF <<user, db_type>> \in DOMAIN db_paths THEN db_paths[<<user, db_type>>]
    ELSE DB_DIR \o user \o "-" \o db_type \o ".csv"

user_has_db(fs, user, db_type) == isfile(fs, user_db_path(user, db_type))

create_db_for_user(fs, user, current, db_type) ==
    save_last_heard(fs, user_db_path(user, db_type), current)

\* A delete that only removes a file of a single row.
delete_user_db_single(fs, user, db_type) ==
    IF user_has_db(fs, user, db_type) /\ Len(fs[user_db_path(user, db_type)]) = 1
    THEN [p \in DOMAIN fs \ {user_db_path(user, db_type)} |-> fs[p]]
    ELSE fs

\* A delete that empties the file and leaves it in place.
delete_user_db_truncate(fs, user, db_type) ==
    IF user_has_db(fs, user, db_type)
    THEN [fs EXCEPT ![user_db_path(user, db_type)] = <<>>]
    ELSE fs

delete_user_db(fs, user, db_type) ==
    IF user_has_db(fs, user, db_type)
    THEN [p \in DOMAIN fs \ {user_db_path(user, db_type)} |-> fs[p]]
    ELSE fs

(***************************************************************************)
(* The activity evaluator.                                                 *)
(***************************************************************************)
\* An evaluator that also accepts an elapsed time equal to the threshold.
new_activity_ge(previous, current, threshold) ==
    IF Len(previous) < 2 THEN Raise(IndexError)
    ELSE
      LET elapsed_time == calculate_elapsed_time(previous[2])
      IN  IF elapsed_time.raised # None THEN elapsed_time
          ELSE IF previous # current
          THEN IF elapsed_time.value * threshold.den >= threshold.num
               THEN Ok(TRUE) ELSE Ok(FALSE)
          ELSE Ok(FALSE)

new_activity(previous, current, threshold) ==
    IF Len(previous) < 2 THEN Raise(IndexError)
    ELSE
      LET elapsed_time == calculate_elapsed_time(previous[2])
      IN  IF elapsed_time.raised # None THEN elapsed_time
          ELSE IF previous # current
          THEN IF exceeds(elapsed_time.value, threshold) THEN Ok(TRUE)
               ELSE Ok(FALSE)
          ELSE Ok(FALSE)

(***************************************************************************)
(* The tracking and watching ticks.  Each returns what it raised (None or  *)
(* the exception), the value it returned (a tick that raised returns no    *)
(* value: FALSE stands for it), the file system it leaves, whether it      *)
(* called new_activity and with which records, and the number of fetches   *)
(* it made.  net tells whether get_last_heard() succeeds, net2 whether the *)
(* fetch of the inform_last_heard() that check_activity prints before it   *)
(* saves does; that second fetch reads the page as it is by then,          *)
(* `reloaded`.                                                             *)
(***************************************************************************)
\* A tick whose fetch raised: it does not reach new_activity.
Unfetched(fs) ==
    [raised |-> FetchError, value |-> FALSE, fs |-> fs, evaluated |-> FALSE,
     current |-> <<>>, previous |-> <<>>, fetched |-> 1]

\* A tick that raised in new_activity or after it.
Raised(fs, exception, current, previous, fetched) ==
    [raised |-> exception, value |-> FALSE, fs |-> fs, evaluated |-> TRUE,
     current |-> current, previous |-> previous, fetched |-> fetched]

Returned(value, fs, current, previous, fetched) ==
    [raised |-> None, value |-> value, fs |-> fs, evaluated |-> TRUE,
     current |-> current, previous |-> previous, fetched |-> fetched]

check_activity(fs, user, threshold, net, net2, reloaded) ==
    IF ~net THEN Unfetched(fs)
    ELSE
      LET db_type == "track"
          user_db == user_db_path(user, db_type)
          current_station == get_last_heard(page)
          fs1 == IF ~user_has_db(fs, user, db_type)
                 THEN create_db_for_user(fs, user, current_station, db_type)
                 ELSE fs
          previous_station == read_previously_heard(fs1, user_db)
          fired == new_activity(previous_station, current_station, threshold)
          printed == inform_last_heard_raised(get_last_heard(reloaded))
          saved == save_last_heard(fs1, user_db, current_station)
      IN  IF fired.raised # None
          THEN Raised(fs1, fired.raised, current_station, previous_station, 1)
          ELSE IF fired.value
          THEN IF ~net2
               THEN Raised(fs1, FetchError, current_station,
                           previous_station, 2)
               ELSE IF printed # None
               THEN Raised(fs1, printed, current_station, previous_station, 2)
               ELSE Returned(TRUE, saved, current_station, previous_station, 2)
          ELSE Returned(FALSE, saved, current_station, previous_station, 1)

was_callsign_heard(fs, user, callsign, net) ==
    IF ~net THEN Unfetched(fs)
    ELSE
      LET db_type == "watch"
          user_db == user_db_path(user, db_type)
          current_station == get_last_heard(page)
          current_callsign == current_station[1]
          threshold == number(SECOND)
          fs1 == IF ~user_has_db(fs, user, db_type)
                 THEN create_db_for_user(fs, user, current_station, db_type)
                 ELSE fs
          previous_station == read_previously_heard(fs1, user_db)
          fired == new_activity(previous_station, current_station, threshold)
          saved == save_last_heard(fs1, user_db, current_station)
      IN  IF fired.raised # None
          THEN Raised(fs1, fired.raised, current_station, previous_station, 1)
          ELSE IF fired.value /\ current_callsign = callsign
          THEN Returned(TRUE, saved, current_station, previous_station, 1)
          ELSE Returned(FALSE, saved, current_station, previous_station, 1)

(***************************************************************************)
(* The formatter on its own: a duration is drawn, then formatted.          *)
(***************************************************************************)
FmtBoundaries == {0, SECOND, MINUTE - 1, MINUTE, HOUR - MINUTE \div 2, HOUR,
                  DAY - HOUR \div 2, DAY, 2 * DAY}

Deltas ==
    (0 .. MINUTE * Den) \cup
    {b * Den + e : b \in FmtBoundaries, e \in (0 - FmtSpread) .. FmtSpread}

NoCall == [fn |-> "none"]

NoRet == [op |-> "none"]

Idle == [at |-> "idle"]

NoSched == [due |-> 0]

InitFmt ==
    /\ now = 0
    /\ page = <<>>
    /\ db = <<>>
    /\ jobs = {}
    /\ pc = Idle
    /\ ret = NoRet
    /\ seen = <<>>
    /\ world = [members |-> {}, kinds |-> {}, stations |-> {},
                untimed |-> FALSE]
    /\ sched = NoSched
    /\ call \in {[fn |-> "print_elapsed_time", delta |-> n] : n \in Deltas}

Format ==
    /\ call.fn = "print_elapsed_time"
    /\ ret = NoRet
    /\ ret' = [op |-> "print_elapsed_time", value |-> print_elapsed_time(call.delta)]
    /\ UNCHANGED <<now, page, db, jobs, pc, call, seen, world, sched>>

NextFmt == Format

SpecFmt == InitFmt /\ [][NextFmt]_vars

(***************************************************************************)
(* The evaluator on its own: the clock, two records and a threshold are    *)
(* drawn, then new_activity is applied.                                    *)
(***************************************************************************)
\* The thresholds the evaluator is tried on: below, at and above the elapsed
\* times, and half a second.
Thresholds == {number(0 - 1), number(0), number(SECOND),
               number(INACTIVE_TIME), [num |-> 5, den |-> 10]}

\* The rows the evaluator is tried on as `previous`: the records, a row
\* whose timestamp is the second 60 of a minute, a row without a timestamp
\* and the empty row.
EvalPrevious ==
    Records \cup {<<"A", "20240101000060", "">>, <<"A", "", "">>, <<>>}

InitEval ==
    /\ now \in Times
    /\ page = <<>>
    /\ db = <<>>
    /\ jobs = {}
    /\ pc = Idle
    /\ ret = NoRet
    /\ seen = <<>>
    /\ world = [members |-> {}, kinds |-> {}, stations |-> {},
                untimed |-> FALSE]
    /\ sched = NoSched
    /\ call \in {[fn |-> "new_activity", previous |-> p, current |-> c,
                  threshold |-> t] :
                 p \in EvalPrevious, c \in Records, t \in Thresholds}

Evaluate ==
    LET result == new_activity(call.previous, call.current, call.threshold)
    IN  /\ call.fn = "new_activity"
        /\ ret = NoRet
        /\ ret' = IF result.raised # None
                  THEN [op |-> "new_activity", raised |-> result.raised]
                  ELSE [op |-> "new_activity", raised |-> None,
                        value |-> result.value]
        /\ UNCHANGED <<now, page, db, jobs, pc, call, seen, world, sched>>

NextEval == Evaluate

SpecEval == InitEval /\ [][NextEval]_vars

(***************************************************************************)
(* The bot: the upstream page and the clock change on their own, users     *)
(* send commands, the job queue runs the scheduled jobs.  A handler runs   *)
(* without interruption up to its first await; warn fetches the page once  *)
(* more between its tick and its message, and the page and the clock can   *)
(* change in between (pc tells that a warn is at that point).  ret holds   *)
(* what the handler that ran in the last step did; it is cleared when the  *)
(* page or the clock moves.                                                *)
(***************************************************************************)
\* str() of a Telegram id.
str(id) == ToString(id)

\* What users type after /track, each argument by the code points of its
\* characters: nothing, "1", the digit one of the Arabic-Indic script, the
\* six ASCII characters of the escape of that digit, and "abc".
TrackArgs ==
    {<<>>, <<<<49>>>>, <<<<1633>>>>, <<<<92, 117, 48, 54, 54, 49>>>>,
     <<<<97, 98, 99>>>>}

\* What users type after /watch.
WatchArgs == {<<>>, <<"A">>, <<"B-1">>, <<"b-1">>}

get_jobs_by_name(name) == {job \in jobs : job.name = name}

\* The rows of a file, none for a file that does not exist.
rows_of(fs, path) == IF isfile(fs, path) THEN fs[path] ELSE <<>>

\* The record the last returned tick on a path fetched, since the path's
\* file was last created.
seen_of(path) == IF path \in DOMAIN seen THEN seen[path] ELSE <<>>

Init ==
    /\ now = 0
    /\ page = <<<<FirstStation[1], strftime(0), FirstStation[2]>>>>
    /\ db = <<>>
    /\ jobs = {}
    /\ pc = Idle
    /\ ret = NoRet
    /\ seen = <<>>
    /\ world \in Worlds
    /\ sched = NoSched
    /\ call = NoCall

\* The satellite relays a packet of station s: the page shows it first, with
\* the text of its timestamp cell.
Heard(s, timestamp) ==
    /\ Len(page) <= MaxHeard
    /\ page' = <<<<s[1], timestamp, s[2]>>>> \o page
    /\ ret' = NoRet
    /\ UNCHANGED <<now, db, jobs, pc, call, seen, world, sched>>

\* Time passes.
Advance(d) ==
    /\ now + d \in Times
    /\ now' = now + d
    /\ ret' = NoRet
    /\ UNCHANGED <<page, db, jobs, pc, call, seen, world, sched>>

\* /lastheard
send_last_heard(net) ==
    LET text == inform_last_heard(get_last_heard(page))
    IN  /\ pc = Idle
        /\ ret' = IF ~net
                  THEN [op |-> "send_last_heard", raised |-> FetchError]
                  ELSE IF text.raised # None
                  THEN [op |-> "send_last_heard", raised |-> text.raised]
                  ELSE [op |-> "send_last_heard", raised |-> None,
                        reply |-> text.value]
        /\ UNCHANGED <<now, page, db, jobs, pc, call, seen, world, sched>>

\* /track [gap]
set_tracking(chat_id, user_id, args, net) ==
    LET job_name == "track_" \o str(chat_id)
        inactivity_gap == IF args # <<>> THEN float(args[1])
                          ELSE Ok(number(INACTIVE_TIME))
        current_jobs == get_jobs_by_name(job_name)
        job == [name |-> job_name, callback |-> "warn", chat_id |-> chat_id,
                user_id |-> user_id, data |-> inactivity_gap.value]
        last_heard == inform_last_heard(get_last_heard(page))
    IN  /\ pc = Idle
        /\ IF inactivity_gap.raised # None
           THEN /\ ret' = [op |-> "set_tracking",
                           raised |-> inactivity_gap.raised]
                /\ UNCHANGED jobs
           ELSE IF current_jobs # {}
           THEN /\ ret' = [op |-> "set_tracking", raised |-> None,
                           reply |-> ALREADY_TRACK_MSG]
                /\ UNCHANGED jobs
           ELSE /\ jobs' = jobs \cup {job}
                /\ ret' = IF ~net
                          THEN [op |-> "set_tracking", raised |-> FetchError]
                          ELSE IF last_heard.raised # None
                          THEN [op |-> "set_tracking",
                                raised |-> last_heard.raised]
                          ELSE [op |-> "set_tracking", raised |-> None,
                                reply |-> SUCCESS_TRACK_MSG \o last_heard.value]
        /\ UNCHANGED <<now, page, db, pc, call, seen, world, sched>>

\* /untrack, /stop
unset_tracking(chat_id, user_id) ==
    LET job_name == "track_" \o str(chat_id)
        current_jobs == get_jobs_by_name(job_name)
        job_removed == current_jobs # {}
    IN  /\ pc = Idle
        /\ jobs' = jobs \ current_jobs
        /\ db' = IF job_removed THEN delete_user_db(db, str(user_id), "track")
                 ELSE db
        /\ seen' = [p \in DOMAIN seen \cap DOMAIN db' |-> seen[p]]
        /\ ret' = [op |-> "unset_tracking", raised |-> None,
                   job_removed |-> job_removed, removed |-> current_jobs,
                   reply |-> IF job_removed THEN UNSET_MSG ELSE UNSET_ERROR_MSG]
        /\ UNCHANGED <<now, page, pc, call, world, sched>>

\* /watch <callsign>
set_watching(chat_id, user_id, args) ==
    LET job_name == "watch_" \o str(chat_id)
        current_jobs == get_jobs_by_name(job_name)
        callsign == upper(args[1])
        job == [name |-> job_name, callback |-> "watch", chat_id |-> chat_id,
                user_id |-> user_id, data |-> callsign]
    IN  /\ pc = Idle
        /\ IF args = <<>>
           THEN /\ ret' = [op |-> "set_watching", raised |-> None,
                           reply |-> CALLSIGN_ERROR_MSG]
                /\ UNCHANGED jobs
           ELSE IF current_jobs # {}
           THEN /\ ret' = [op |-> "set_watching", raised |-> None,
                           reply |-> ALREADY_WATCH_MSG]
                /\ UNCHANGED jobs
           ELSE /\ jobs' = jobs \cup {job}
                /\ ret' = [op |-> "set_watching", raised |-> None,
                           reply |-> SUCCESS_WATCH_MSG \o "*"
                                     \o replace(callsign, "-", "\\-")
                                     \o "*\\. " \o STOP_WATCH_MSG]
        /\ UNCHANGED <<now, page, db, pc, call, seen, world, sched>>

\* /unwatch
unset_watching(chat_id, user_id) ==
    LET job_name == "watch_" \o str(chat_id)
        current_jobs == get_jobs_by_name(job_name)
        job_removed == current_jobs # {}
    IN  /\ pc = Idle
        /\ jobs' = jobs \ current_jobs
        /\ db' = IF job_removed THEN delete_user_db(db, str(user_id), "watch")
                 ELSE db
        /\ seen' = [p \in DOMAIN seen \cap DOMAIN db' |-> seen[p]]
        /\ ret' = [op |-> "unset_watching", raised |-> None,
                   job_removed |-> job_removed, removed |-> current_jobs,
                   reply |-> IF job_removed THEN UNSET_WATCH_MSG
                             ELSE UNSET_WATCH_ERROR_MSG]
        /\ UNCHANGED <<now, page, pc, call, world, sched>>

\* What a tick leaves in ret: the call, its outcome, and the file and the
\* record of the preceding tick as they were before it.
TickRet(op, user, db_type, data, r) ==
    LET path == user_db_path(user, db_type)
    IN  IF r.raised # None
        THEN [op |-> op, user |-> user, path |-> path, raised |-> r.raised,
              value |-> r.value, before |-> rows_of(db, path),
              evaluated |-> r.evaluated, current |-> r.current,
              previous |-> r.previous, bootstrap |-> ~isfile(db, path)]
        ELSE [op |-> op, user |-> user, data |-> data, path |-> path,
              at |-> now, raised |-> r.raised, value |-> r.value,
              evaluated |-> r.evaluated, current |-> r.current,
              previous |-> r.previous, bootstrap |-> ~isfile(db, path),
              before |-> rows_of(db, path),
              preceding |-> seen_of(path)]

\* The record of a packet of the first station with an empty timestamp
\* cell.
Untimed == <<FirstStation[1], "", FirstStation[2]>>

\* The packets that can arrive while a tick runs in the world w: none, or
\* one of a station of the world or, where the world has them, one with an
\* empty timestamp cell.
Arrivals(w) ==
    {<<>>} \cup {<<<<s[1], strftime(now), s[2]>>>> : s \in w.stations}
           \cup (IF w.untimed THEN {<<Untimed>>} ELSE {})

\* The scheduler calls check_activity(user, threshold); the packets of
\* `arrival` reach the page between the two fetches of a call that fetches
\* twice.  A call that fetches once is followed with net2 true and without
\* arrival, and so is no packet fetched by a fetch that fails.
tick_tracking(user, threshold, net, net2, arrival) ==
    LET path == user_db_path(user, "track")
        leaves(r) ==
            /\ r.fetched < 2 => (net2 /\ arrival = <<>>)
            /\ db' = r.fs
            /\ seen' = IF r.raised = None THEN (path :> r.current) @@ seen
                       ELSE seen
            /\ ret' = TickRet("check_activity", user, "track", threshold, r)
    IN  /\ ~net => net2
        /\ ~net2 => arrival = <<>>
        /\ leaves(check_activity(db, user, threshold, net, net2,
                                 arrival \o page))

\* The scheduler calls was_callsign_heard(user, callsign); when it returns
\* True the caller sends `message`.
tick_watching(user, callsign, net, message) ==
    LET path == user_db_path(user, "watch")
        tick(r) == TickRet("was_callsign_heard", user, "watch", callsign, r)
        leaves(r) ==
            /\ db' = r.fs
            /\ seen' = IF r.raised = None THEN (path :> r.current) @@ seen
                       ELSE seen
            /\ ret' = IF r.value THEN message @@ tick(r) ELSE tick(r)
    IN  leaves(was_callsign_heard(db, user, callsign, net))

\* The job queue runs a tracking job: warn up to the end of check_activity.
warn(job, net, net2, arrival) ==
    /\ pc = Idle
    /\ job \in jobs
    /\ job.callback = "warn"
    /\ arrival # <<>> => Len(page) <= MaxHeard
    /\ tick_tracking(str(job.user_id), job.data, net, net2, arrival)
    /\ page' = arrival \o page
    /\ pc' = IF ret'.value THEN [at |-> "warn", job |-> job] ELSE Idle
    /\ UNCHANGED <<now, jobs, call, world, sched>>

\* warn after check_activity returned True: the text is built from a new
\* fetch and sent.
warn_send(net) ==
    LET last_heard == inform_last_heard(get_last_heard(page))
    IN  /\ pc.at = "warn"
        /\ ret' = IF ~net
                  THEN [op |-> "warn", raised |-> FetchError, job |-> pc.job]
                  ELSE IF last_heard.raised # None
                  THEN [op |-> "warn", raised |-> last_heard.raised,
                        job |-> pc.job]
                  ELSE [op |-> "warn", raised |-> None,
                        chat_id |-> pc.job.chat_id, job |-> pc.job,
                        text |-> NEW_ACTIVITY \o last_heard.value]
        /\ pc' = Idle
        /\ UNCHANGED <<now, page, db, jobs, call, seen, world, sched>>

\* The job queue runs a watching job: watch, whose message needs no fetch.
watch(job, net) ==
    LET callsign == job.data
        text == NEW_ACTIVITY \o "*" \o replace(callsign, "-", "\\-") \o "*"
                    \o CALLSIGN_ACTIVITY
    IN  /\ pc = Idle
        /\ job \in jobs
        /\ job.callback = "watch"
        /\ tick_watching(str(job.user_id), callsign, net,
                         [chat_id |-> job.chat_id, text |-> text])
        /\ UNCHANGED <<now, page, jobs, pc, call, world, sched>>

Next ==
    \/ \E s \in world.stations : Heard(s, strftime(now))
    \/ world.untimed /\ Heard(FirstStation, "")
    \/ \E d \in {SECOND, INACTIVE_TIME} : Advance(d)
    \/ \E net \in BOOLEAN : send_last_heard(net)
    \/ \E m \in world.members, a \in TrackArgs, net \in BOOLEAN :
          "track" \in world.kinds /\ set_tracking(m[1], m[2], a, net)
    \/ \E m \in world.members :
          "track" \in world.kinds /\ unset_tracking(m[1], m[2])
    \/ \E m \in world.members, a \in WatchArgs :
          "watch" \in world.kinds /\ set_watching(m[1], m[2], a)
    \/ \E m \in world.members :
          "watch" \in world.kinds /\ unset_watching(m[1], m[2])
    \/ \E job \in jobs, net \in BOOLEAN, net2 \in BOOLEAN,
             arrival \in Arrivals(world) :
          warn(job, net, net2, arrival)
    \/ \E net \in BOOLEAN : warn_send(net)
    \/ \E job \in jobs, net \in BOOLEAN : watch(job, net)

Spec == Init /\ [][Next]_vars

(***************************************************************************)
(* The core on its own, as the scheduler and the chat layer call it: ticks *)
(* of both kinds with any threshold and callsign, and cancellations.  A    *)
(* key is ticked while its file holds at most MaxRows rows.  The page is   *)
(* followed by its first data row, the only one get_last_heard reads, and  *)
(* sched.heard counts the packets with a timestamp the satellite has       *)
(* relayed.                                                                *)
(***************************************************************************)
CoreUsers == {str(m[2]) : m \in world.members}

\* Whether the page can show the packet next: one with a timestamp while
\* fewer than MaxHeard of them were relayed, one without after one with.
relayed(record) ==
    IF record = Untimed THEN page[1] # Untimed ELSE sched.heard < MaxHeard

\* The packets with a timestamp relayed once the page shows the packet.
heard_with(record) ==
    [heard |-> IF record = Untimed THEN sched.heard ELSE sched.heard + 1]

\* The satellite relays a packet: the page shows it first.
relay(record) ==
    /\ relayed(record)
    /\ page' = <<record>>
    /\ sched' = heard_with(record)
    /\ ret' = NoRet
    /\ UNCHANGED <<now, db, jobs, pc, call, seen, world>>

\* Time passes.
elapse(d) ==
    /\ now + d \in Times
    /\ now' = now + d
    /\ ret' = NoRet
    /\ UNCHANGED <<page, db, jobs, pc, call, seen, world, sched>>

CoreGaps == {number(SECOND), number(INACTIVE_TIME)}

CoreCallsigns == {s[1] : s \in Stations}

check(user, threshold, net, net2, arrival) ==
    /\ Len(rows_of(db, user_db_path(user, "track"))) <= MaxRows
    /\ arrival # <<>> => relayed(arrival[1])
    /\ tick_tracking(user, threshold, net, net2, arrival)
    /\ page' = IF arrival # <<>> THEN arrival ELSE page
    /\ sched' = IF arrival # <<>> THEN heard_with(arrival[1]) ELSE sched
    /\ UNCHANGED <<now, jobs, pc, call, world>>

heard(user, callsign, net) ==
    /\ Len(rows_of(db, user_db_path(user, "watch"))) <= MaxRows
    /\ tick_watching(user, callsign, net, <<>>)
    /\ UNCHANGED <<now, page, jobs, pc, call, world, sched>>

cancel(user, db_type) ==
    /\ db' = delete_user_db(db, user, db_type)
    /\ seen' = [p \in DOMAIN seen \cap DOMAIN db' |-> seen[p]]
    /\ ret' = [op |-> "delete_user_db", user |-> user, db_type |-> db_type,
               raised |-> None, existed |-> user_has_db(db, user, db_type),
               before |-> rows_of(db, user_db_path(user, db_type))]
    /\ UNCHANGED <<now, page, jobs, pc, call, world, sched>>

InitCore ==
    /\ now = 0
    /\ page = <<<<FirstStation[1], strftime(0), FirstStation[2]>>>>
    /\ db = <<>>
    /\ jobs = {}
    /\ pc = Idle
    /\ ret = NoRet
    /\ seen = <<>>
    /\ world \in CoreWorlds
    /\ sched = [heard |-> 0]
    /\ call = NoCall

NextCore ==
    \/ \E s \in world.stations : relay(<<s[1], strftime(now), s[2]>>)
    \/ world.untimed /\ relay(Untimed)
    \/ \E d \in {SECOND, INACTIVE_TIME} : elapse(d)
    \/ \E u \in CoreUsers, t \in CoreGaps, net \in BOOLEAN, net2 \in BOOLEAN,
             arrival \in Arrivals(world) :
          "track" \in world.kinds /\ check(u, t, net, net2, arrival)
    \/ \E u \in CoreUsers, c \in CoreCallsigns, net \in BOOLEAN :
          "watch" \in world.kinds /\ heard(u, c, net)
    \/ \E u \in CoreUsers, k \in world.kinds : cancel(u, k)

SpecCore == InitCore /\ [][NextCore]_vars

(***************************************************************************)
(* A tracking subscription on its cadence: user 1 sent /track <gap> in     *)
(* chat 10 at the start, the job queue runs the job every TRACK_INTERVAL   *)
(* seconds from then on, and packets arrive in between.  sched.due is the  *)
(* instant of the next run, sched.notified the records the runs fired on.  *)
(* As in the bot, a packet can arrive between the tick of warn and its     *)
(* message.                                                                *)
(***************************************************************************)
\* The time between two packets of a burst, and between two steps of the
\* clock.
PacketSpacing == TRACK_INTERVAL \div 3

\* The gaps the user subscribes with: half a cadence and a cadence and a half.
CadenceGaps == {number(TRACK_INTERVAL \div 2),
                number(TRACK_INTERVAL + TRACK_INTERVAL \div 2)}

\* The job run_repeating puts in the queue for /track <gap>.
CadenceJob(gap) ==
    [name |-> "track_" \o str(10), callback |-> "warn", chat_id |-> 10,
     user_id |-> 1, data |-> gap]

InitCadence ==
    /\ now = 0
    /\ page = <<<<FirstStation[1], strftime(0), FirstStation[2]>>>>
    /\ db = <<>>
    /\ jobs \in {{CadenceJob(gap)} : gap \in CadenceGaps}
    /\ pc = Idle
    /\ ret = NoRet
    /\ seen = <<>>
    /\ world = [members |-> {<<10, 1>>}, kinds |-> {"track"},
                stations |-> Stations, untimed |-> FALSE]
    /\ call = NoCall
    /\ sched = [due |-> TRACK_INTERVAL, notified |-> {}]

\* The satellite relays a packet of station s, at most one in an instant.
Burst(s) ==
    /\ Len(page) <= MaxBurst
    /\ now > strptime(page[1][2]).value
    /\ page' = <<<<s[1], strftime(now), s[2]>>>> \o page
    /\ ret' = NoRet
    /\ UNCHANGED <<now, db, jobs, pc, call, seen, world, sched>>

\* Time passes, up to the next run of the job.
Wait(d) ==
    /\ now + d <= sched.due
    /\ now' = now + d
    /\ ret' = NoRet
    /\ UNCHANGED <<page, db, jobs, pc, call, seen, world, sched>>

\* The job queue runs the job when it is due: warn up to the end of
\* check_activity.
run_repeating(job, net, net2, arrival) ==
    /\ pc = Idle
    /\ job \in jobs
    /\ now = sched.due
    /\ sched.due <= MaxRuns * TRACK_INTERVAL
    /\ arrival # <<>> =>
          /\ Len(page) <= MaxBurst
          /\ now > strptime(page[1][2]).value
    /\ tick_tracking(str(job.user_id), job.data, net, net2, arrival)
    /\ page' = arrival \o page
    /\ sched' = [due |-> sched.due + TRACK_INTERVAL,
                 notified |-> IF ret'.value
                              THEN sched.notified \cup {ret'.current}
                              ELSE sched.notified]
    /\ pc' = IF ret'.value THEN [at |-> "warn", job |-> job] ELSE Idle
    /\ UNCHANGED <<now, jobs, call, world>>

NextCadence ==
    \/ \E s \in world.stations : Burst(s)
    \/ Wait(PacketSpacing)
    \/ \E job \in jobs, net \in BOOLEAN, net2 \in BOOLEAN,
             arrival \in {<<>>} \cup {<<<<s[1], strftime(now), s[2]>>>> :
                                          s \in world.stations} :
          run_repeating(job, net, net2, arrival)
    \/ \E net \in BOOLEAN : warn_send(net)

SpecCadence == InitCadence /\ [][NextCadence]_vars

(***************************************************************************)
(* The claims.                                                             *)
(***************************************************************************)
IsTick == ret.op \in {"check_activity", "was_callsign_heard"}

\* A tick that returned a value (it did not raise).
TickReturned == IsTick /\ ret.raised = None

\* A tick that called new_activity, whether it returned or raised then.
TickEvaluated == IsTick /\ ret.evaluated

\* The record the file of the tick held last before the tick.
StoredBefore == last_row(ret.before, <<>>)

\* The records the page has shown.
Shown == {page[i] : i \in DOMAIN page}

\* The kind of subscription a job ticks.
kind_of(job) == IF job.callback = "warn" THEN "track" ELSE "watch"

\* C1: new_activity(previous, current, threshold) is true exactly when the
\* two records differ in callsign, timestamp or link and the time elapsed on
\* the wall clock since the instant previous.timestamp names is strictly
\* greater than the threshold; it is false whenever the two records are equal.
C1_EvaluatorIff ==
    (ret.op = "new_activity" /\ call.previous \in Records) =>
        LET p == call.previous
            c == call.current
            threshold == call.threshold
            differ == p[1] # c[1] \/ p[2] # c[2] \/ p[3] # c[3]
            elapsed_exceeds ==
                \E t \in Times :
                    /\ strftime(t) = p[2]
                    /\ (now - t) * threshold.den > threshold.num
        IN  /\ ret.raised = None
            /\ ret.value = (differ /\ elapsed_exceeds)
            /\ p = c => ret.value = FALSE

\* C1 happens: the evaluator returned true for two records that differ in the
\* link alone.
C1_Witness ==
    /\ ret.op = "new_activity"
    /\ ret.raised = None
    /\ ret.value = TRUE
    /\ call.previous[1] = call.current[1]
    /\ call.previous[2] = call.current[2]
    /\ call.previous[3] # call.current[3]

\* C2: over successive tracking ticks on one key, starting from an empty
\* store, the first tick returns false, and each later tick returns true
\* exactly when the record it fetched differs from the record the preceding
\* tick fetched and the clock at the tick minus the instant of that preceding
\* record exceeds the threshold.
C2_TrackingTicks ==
    (ret.op = "check_activity" /\ ret.raised = None) =>
        ret.value =
            (/\ ret.preceding # <<>>
             /\ ret.current # ret.preceding
             /\ \E t \in Times :
                   /\ strftime(t) = ret.preceding[2]
                   /\ exceeds(ret.at - t, ret.data))

\* C3: a watching tick returns true only if the callsign of the fetched record
\* is the target callsign and the fetched record differs from the record the
\* key's file held before the tick.
C3_WatchOnlyIf ==
    (ret.op = "was_callsign_heard" /\ ret.raised = None /\ ret.value = TRUE) =>
        /\ ret.current[1] = ret.data
        /\ ret.before # <<>>
        /\ ret.current # StoredBefore

\* C4: on every watching tick after the bootstrap tick, if the fetched record
\* differs from the stored record and its callsign is the target callsign, the
\* tick returns true, whatever the timestamp of the stored record and the
\* time between ticks.
C4_WatchAnyChange ==
    (/\ ret.op = "was_callsign_heard"
     /\ ret.raised = None
     /\ ~ret.bootstrap
     /\ ret.current # StoredBefore
     /\ ret.current[1] = ret.data) => ret.value = TRUE

\* C5: the first tick, tracking or watching, on a key without a file returns
\* false, whatever the fetched record and the threshold, and leaves the file
\* with exactly one row, the fetched record.
C5_Bootstrap ==
    (TickReturned /\ ret.bootstrap) =>
        /\ ret.value = FALSE
        /\ isfile(db, ret.path)
        /\ db[ret.path] = <<ret.current>>

\* C6: after a cancellation that removed a running job, the file of the key
\* that job was ticking no longer exists.
C6_CancelRemovesSlot ==
    (ret.op \in {"unset_tracking", "unset_watching"} /\ ret.job_removed) =>
        \A job \in ret.removed :
            ~user_has_db(db, str(job.user_id), kind_of(job))

\* C7: at any time at most one scheduled job ticks a given key (user, kind).
C7_OneJobPerKey ==
    \A j1 \in jobs, j2 \in jobs :
        (j1.user_id = j2.user_id /\ kind_of(j1) = kind_of(j2)) => j1 = j2

\* C8: for every key and every record the page has shown, save_last_heard of
\* the record the key's file holds last leaves the file system unchanged and
\* saving a record twice in a row is saving it once; a tick that fetches the
\* record its file holds last does not grow the file.
C8_AppendIdempotent ==
    /\ \A u \in CoreUsers, k \in world.kinds, r \in Shown :
          LET path == user_db_path(u, k)
              once == save_last_heard(db, path, r)
          IN  /\ save_last_heard(once, path, r) = once
              /\ Len(once[path]) <= Len(rows_of(db, path)) + 1
              /\ (isfile(db, path) /\ last_row(db[path], <<>>) = r) => once = db
    /\ (TickReturned /\ ~ret.bootstrap /\ StoredBefore = ret.current) =>
          db[ret.path] = ret.before

\* C9: after every tick, tracking or watching, that returns a value, true or
\* false, the last row of the key's file is the record the tick fetched.
C9_StoreFollowsFetch ==
    TickReturned =>
        /\ isfile(db, ret.path)
        /\ last_row(db[ret.path], <<>>) = ret.current

\* C10: the formatter meets the stated boundaries: 1 s is "1 second", 59 s is
\* "59 seconds", 60 s is "1 minute", 3600 s is "1 hour", 86400 s is "1 day"
\* and 172800 s is "2 days".
C10_FormatterBoundaries ==
    ret.op = "print_elapsed_time" =>
        /\ call.delta = 1 * Den => ret.value = "1 second"
        /\ call.delta = 59 * Den => ret.value = "59 seconds"
        /\ call.delta = 60 * Den => ret.value = "1 minute"
        /\ call.delta = 3600 * Den => ret.value = "1 hour"
        /\ call.delta = 86400 * Den => ret.value = "1 day"
        /\ call.delta = 172800 * Den => ret.value = "2 days"

\* C11: for every duration d with 0 <= d < 60, fractional ones included, the
\* formatter rounds d to the nearest whole second N and returns "1 second"
\* when N is 1 and "N seconds" otherwise.
C11_SecondsBranch ==
    (ret.op = "print_elapsed_time" /\ 0 <= call.delta /\ call.delta < 60 * Den) =>
        LET N == round(call.delta, Den)
        IN  ret.value = IF N = 1 THEN "1 second"
                        ELSE ToString(N) \o " seconds"

\* C12: a tick, tracking or watching, during which the fetch fails raises the
\* failure to its caller, reports no notification and leaves the files of all
\* keys exactly as they were before the tick, so that the next tick evaluates
\* against the unchanged state.
C12_FetchFailureLeavesState ==
    [][(IsTick' /\ ret'.raised = FetchError) =>
          /\ ret'.value = FALSE
          /\ db' = db
          /\ seen' = seen]_vars

\* C13: delete_user_db(key) raises nothing and leaves the key without a file,
\* however many rows the file held; on a key that has no file it changes
\* nothing.
C13_DeleteRemovesAll ==
    [][ret'.op = "delete_user_db" =>
          /\ ret'.raised = None
          /\ ~user_has_db(db', ret'.user, ret'.db_type)
          /\ ~user_has_db(db, ret'.user, ret'.db_type) => db' = db]_vars

\* C13 happens: a file of two rows was deleted.
C13_Witness ==
    /\ ret.op = "delete_user_db"
    /\ ret.existed
    /\ Len(ret.before) = 2
    /\ ~user_has_db(db, ret.user, ret.db_type)

\* The instant a record's timestamp names.
instant(record) == strptime(record[2]).value

\* C14: on the 60-second cadence and for every gap the user subscribes with,
\* a tracking tick that fires on record C finds the packet heard just before
\* C more than the gap older than C; and two records the job fired on are
\* separated by a silence longer than the gap, so that a burst of packets
\* spaced less than the gap apart is notified at most once.
C14_GapOfSilence ==
    /\ (ret.op = "check_activity" /\ ret.raised = None /\ ret.value = TRUE) =>
          /\ Len(page) >= 2
          /\ exceeds(instant(page[1]) - instant(page[2]), ret.data)
    /\ \A c1 \in sched.notified, c2 \in sched.notified :
          instant(c1) < instant(c2) =>
              \E i \in 1 .. (Len(page) - 1) :
                  /\ instant(c1) <= instant(page[i + 1])
                  /\ instant(page[i]) <= instant(c2)
                  /\ \A job \in jobs :
                        exceeds(instant(page[i]) - instant(page[i + 1]),
                                job.data)

\* C15: a fetch error in warn between the evaluation that decided to fire and
\* the delivery of the message does not lose the notification: the state the
\* job's next tick evaluates against is stale, so that tick fires again.
C15_FailureKeepsNotification ==
    [][(/\ ret.op = "warn"
        /\ ret.raised = FetchError
        /\ ret'.op = "check_activity"
        /\ ret'.raised = None
        /\ ret'.user = str(ret.job.user_id)
        /\ ret'.data = ret.job.data) => ret'.value = TRUE]_vars

\* C16: across ticks and cancellations, the previous record a tick passes to
\* new_activity is a complete stored record (callsign, timestamp, link), never
\* an empty one: every file that exists holds at least one row and only
\* complete rows, and every tick that calls new_activity, whether the call
\* returns or raises and whatever the tick does after it, passes the last of
\* them as the file gives it back (on a key without a file, the row the tick
\* has just stored of the record it fetched).
C16_EvaluatorHasPrevious ==
    /\ \A path \in DOMAIN db :
          /\ Len(db[path]) >= 1
          /\ \A i \in DOMAIN db[path] : Len(db[path][i]) = 3
    /\ IsTick => ret.raised # IndexError
    /\ TickEvaluated =>
          /\ ret.previous # <<>>
          /\ Len(ret.previous) = 3
          /\ ret.previous = IF ret.bootstrap
                            THEN read_row(written_row(ret.current))
                            ELSE StoredBefore

\* C16 happens: after the second packet a key was bootstrapped, and its next
\* tick evaluated against the one row the bootstrap had stored.
C16_Witness ==
    /\ TickReturned
    /\ ~ret.bootstrap
    /\ Len(ret.before) = 1
    /\ ret.previous = page[1]
    /\ ret.current = page[1]
    /\ sched.heard = 1

\* The key (subscriber, kind) the operation in r acted on.
key_of(r) ==
    <<r.user, IF r.op = "check_activity" THEN "track"
              ELSE IF r.op = "was_callsign_heard" THEN "watch"
              ELSE r.db_type>>

\* C17: a tick or a delete on one key leaves the stored log of every other
\* key as it was, the other kind of the same subscriber included.
C17_KeysIndependent ==
    [][(IsTick' \/ ret'.op = "delete_user_db") =>
          \A u \in CoreUsers, k \in {"track", "watch"} :
              <<u, k>> # key_of(ret') =>
                  /\ user_has_db(db', u, k) = user_has_db(db, u, k)
                  /\ rows_of(db', user_db_path(u, k))
                        = rows_of(db, user_db_path(u, k))]_vars

\* C17 happens: a tracking tick appended to a subscriber's tracking file
\* while the same subscriber's watching file held other rows.
C17_Witness ==
    /\ ret.op = "check_activity"
    /\ ret.raised = None
    /\ db[ret.path] # ret.before
    /\ user_has_db(db, ret.user, "watch")
    /\ db[user_db_path(ret.user, "watch")] # db[ret.path]
    /\ db[user_db_path(ret.user, "watch")] # ret.before

\* C18: the message warn sends with a fired tracking notification describes
\* the record its tick fetched, evaluated and stored: the callsign, the
\* elapsed time and the link are those of the last row of the job's file,
\* also when the page changed while warn was running.
C18_SummaryOfStoredRecord ==
    (ret.op = "warn" /\ ret.raised = None) =>
        LET user_db == user_db_path(str(ret.job.user_id), "track")
        IN  ret.text = NEW_ACTIVITY
                \o inform_last_heard(read_previously_heard(db, user_db)).value

\* C19: the formatter does not roll a rounded value over to the next unit:
\* for 59.5 <= d < 60 it returns "60 seconds", for 3570 <= d < 3600
\* "60 minutes" and for 84600 <= d < 86400 "24 hours".
C19_NoRollOver ==
    ret.op = "print_elapsed_time" =>
        LET n == call.delta
        IN  /\ (119 * Den <= 2 * n /\ n < 60 * Den) => ret.value = "60 seconds"
            /\ (3570 * Den <= n /\ n < 3600 * Den) => ret.value = "60 minutes"
            /\ (84600 * Den <= n /\ n < 86400 * Den) => ret.value = "24 hours"

\* C19 happens: 59 minutes 30 seconds were formatted as "60 minutes".
C19_Witness ==
    /\ ret.op = "print_elapsed_time"
    /\ call.delta = 3570 * Den
    /\ ret.value = "60 minutes"

====
